---- MODULE Spec2Model ----
(***************************************************************************)
(* A model of main.py of the YouTube video summarizer: the video-reference *)
(* resolver (get_video_id, validate_video_id), the transcript tool         *)
(* (fetch_youtube_transcript), the module-level configuration steps and    *)
(* the two-task sequential crew started by the __main__ block.             *)
(*                                                                         *)
(* A Python str is modelled as a sequence of one-character strings, so     *)
(* that searching, slicing and joining are computed, not assumed.          *)
(***************************************************************************)
EXTENDS Integers, Sequences, FiniteSets, TLC

VARIABLES
    pc,              \* where the script is: "check_key", "configure_llm",
                     \* "assemble", "main", "kickoff", "done", "exited",
                     \* "config_error" ("off": the script is not running)
    GEMINI_API_KEY,  \* the credential constant (main.py:38)
    errorsImported,  \* whether the import of the provider's error classes
                     \* succeeded (main.py:21-26)
    gemini_llm,      \* the LLM object (main.py:148-152)
    youtube_url,     \* the reference of the run (main.py:225)
    taskIndex,       \* the position in the crew's task list (0: no run yet)
    taskState,       \* per task: "pending", "running", "complete", "aborted"
    taskOutput,      \* per task: its output, once complete
    taskContext,     \* per task: the context it was started with
    observation,     \* the last tool result handed back to the agent
    llmCalls,        \* the number of LLM calls made
    failedCall,      \* the LLM call that raised (0: none)
    toolCalls,       \* the number of calls of fetch_youtube_transcript
    lastTool,        \* the last call of fetch_youtube_transcript
    providerCalls,   \* the number of transcript provider calls made
    stdout,          \* what __main__ printed: "none", "summary", "error"
    fn,              \* the function applied on its own ("none": none yet)
    arg,             \* its input
    ret              \* its result

progVars ==
    <<pc, GEMINI_API_KEY, errorsImported, gemini_llm, youtube_url, taskIndex,
      taskState, taskOutput, taskContext, observation, llmCalls, failedCall,
      toolCalls, lastTool, providerCalls, stdout>>

pureVars == <<fn, arg, ret>>

vars == <<progVars, pureVars>>

(***************************************************************************)
(* Character classes of the regular expressions (main.py:65-67, 79).       *)
(***************************************************************************)
Lower == {"a","b","c","d","e","f","g","h","i","j","k","l","m","n","o","p","q","r","s","t","u","v","w","x","y","z"}

Upper == {"A","B","C","D","E","F","G","H","I","J","K","L","M","N","O","P","Q","R","S","T","U","V","W","X","Y","Z"}

Digits == {"0","1","2","3","4","5","6","7","8","9"}

\* [a-zA-Z0-9_-]
IdChar(c) == c \in Lower \cup Upper \cup Digits \cup {"_", "-"}

\* the repetition count {11}
IdLen == 11

Min(S) == CHOOSE x \in S : \A y \in S : x <= y

\* the literal lit matches s at position i (1-based)
MatchLiteral(s, i, lit) ==
    /\ i + Len(lit) - 1 <= Len(s)
    /\ SubSeq(s, i, i + Len(lit) - 1) = lit

\* [a-zA-Z0-9_-]{11} matches s at position i
MatchIdRun(s, i) ==
    /\ i >= 1
    /\ i + IdLen - 1 <= Len(s)
    /\ \A k \in i..(i + IdLen - 1) : IdChar(s[k])

\* regex_patterns with the shorts link left out of the first pattern
regex_patterns_no_shorts ==
    << << <<"v","=">>,
          <<"/","v","i","d","e","o","s","/">>,
          <<"e","m","b","e","d","/">>,
          <<".","b","e","/">> >>,
       << <<"y","o","u","t","u","b","e",".","c","o","m","/","w","a","t","c","h","?","v","=">> >>,
       << <<"y","o","u","t","u",".","b","e","/">> >> >>

(***************************************************************************)
(* regex_patterns: each pattern is an ordered alternation of literals that *)
(* is followed by the capturing group ([a-zA-Z0-9_-]{11}).                 *)
(***************************************************************************)
regex_patterns ==
    << << <<"v","=">>,
          <<"/","v","i","d","e","o","s","/">>,
          <<"e","m","b","e","d","/">>,
          <<".","b","e","/">>,
          <<"s","h","o","r","t","s","/">> >>,
       << <<"y","o","u","t","u","b","e",".","c","o","m","/","w","a","t","c","h","?","v","=">> >>,
       << <<"y","o","u","t","u",".","b","e","/">> >> >>

\* the alternatives of pattern p that match s at position i together with
\* the group that follows them
AltsAt(p, s, i) ==
    {k \in 1..Len(p) : MatchLiteral(s, i, p[k]) /\ MatchIdRun(s, i + Len(p[k]))}

\* re.search(pattern, s): the leftmost position where the pattern matches,
\* there the first alternative that matches; the value is group(1), or the
\* empty sequence for None
re_search(p, s) ==
    LET hits == {i \in 1..Len(s) : AltsAt(p, s, i) # {}}
    IN  IF hits = {} THEN <<>>
        ELSE LET i == Min(hits)
                 k == Min(AltsAt(p, s, i))
                 g == i + Len(p[k])
             IN  SubSeq(s, g, g + IdLen - 1)

S_InvalidFormat == <<"I","n","v","a","l","i","d"," ","Y","o","u","T","u","b","e"," ","U","R","L"," ","f","o","r","m","a","t",":"," ">>

\* get_video_id that takes the reference itself for the identifier when no
\* pattern is found, instead of raising
get_video_id_lenient(url) ==
    LET found == {k \in 1..Len(regex_patterns) :
                     re_search(regex_patterns[k], url) # <<>>}
    IN  [raised |-> "none",
         value |-> IF found = {} THEN url
                   ELSE re_search(regex_patterns[Min(found)], url)]

\* get_video_id(youtube_url): the first pattern, in list order, that is
\* found gives the identifier; no pattern found raises ValueError
get_video_id(url) ==
    LET found == {k \in 1..Len(regex_patterns) :
                     re_search(regex_patterns[k], url) # <<>>}
    IN  IF found = {}
        THEN [raised |-> "ValueError", value |-> S_InvalidFormat \o url]
        ELSE [raised |-> "none",
              value |-> re_search(regex_patterns[Min(found)], url)]

\* "$" without re.MULTILINE: the end of the string, or just before a newline
\* that is the last character of the string
AtDollar(s, i) ==
    \/ i = Len(s) + 1
    \/ i = Len(s) /\ s[i] = "\n"

\* validate_video_id(video_id): bool(re.match(r'^[a-zA-Z0-9_-]{11}$', video_id))
validate_video_id(video_id) ==
    /\ MatchIdRun(video_id, 1)
    /\ AtDollar(video_id, IdLen + 1)

(***************************************************************************)
(* Transcript selection (main.py:100-105).  The provider's transcript list *)
(* keeps the listed transcripts in two dictionaries keyed by language      *)
(* code, the manually created ones and the generated ones.                 *)
(***************************************************************************)
\* the preference list with the generic code put first
PreferredLanguages_generic_first == <<"en", "en-CA", "en-US", "en-GB">>

\* the argument of find_transcript
PreferredLanguages == <<"en-CA", "en-US", "en-GB", "en">>

LanguageCodes == {"en-CA", "en-US", "en-GB", "en", "es"}

Transcripts == [language_code : LanguageCodes, is_generated : BOOLEAN]

\* the language codes of the listed transcripts of one kind
CodesOf(listing, generated) ==
    {listing[i].language_code :
        i \in {j \in 1..Len(listing) : listing[j].is_generated = generated}}

\* the provider's lookup: the codes in the order given, for each the
\* manually created transcripts before the generated ones
RECURSIVE FindIn(_, _, _)
FindIn(listing, codes, k) ==
    IF k > Len(codes)
    THEN [raised |-> "NoTranscriptFound"]
    ELSE IF codes[k] \in CodesOf(listing, FALSE)
         THEN [raised |-> "none", language_code |-> codes[k], is_generated |-> FALSE]
         ELSE IF codes[k] \in CodesOf(listing, TRUE)
              THEN [raised |-> "none", language_code |-> codes[k], is_generated |-> TRUE]
              ELSE FindIn(listing, codes, k + 1)

\* transcript_list.find_transcript(['en-CA', 'en-US', 'en-GB', 'en'])
find_transcript(listing) == FindIn(listing, PreferredLanguages, 1)

(***************************************************************************)
(* Transcript assembly (main.py:111-119).                                  *)
(***************************************************************************)
S_Space == <<" ">>

\* a fetched snippet is an object with a text attribute, a dict with or
\* without a "text" key, or some other value
SnippetKinds == {"object", "dict", "dict_no_text", "other"}

\* getattr(s, "text", s.get("text") if isinstance(s, dict) else "");
\* [none |-> TRUE] stands for None
SnippetText(s) ==
    CASE s.kind = "object"       -> [none |-> FALSE, text |-> s.text]
      [] s.kind = "dict"         -> [none |-> FALSE, text |-> s.text]
      [] s.kind = "dict_no_text" -> [none |-> TRUE, text |-> <<>>]
      [] OTHER                   -> [none |-> FALSE, text |-> <<>>]

\* a join that puts the separator after every item, the last included
RECURSIVE Join_trailing(_, _)
Join_trailing(sep, list) ==
    IF Len(list) = 0 THEN <<>>
    ELSE list[1] \o sep \o Join_trailing(sep, Tail(list))

\* sep.join(list) for a list of str
RECURSIVE Join(_, _)
Join(sep, list) ==
    IF Len(list) = 0 THEN <<>>
    ELSE IF Len(list) = 1 THEN list[1]
    ELSE list[1] \o sep \o Join(sep, Tail(list))

DigitChars == <<"0","1","2","3","4","5","6","7","8","9">>

S_SequenceItem == <<"s","e","q","u","e","n","c","e"," ","i","t","e","m"," ">>

S_ExpectedStr == <<":"," ","e","x","p","e","c","t","e","d"," ","s","t","r"," ","i","n","s","t","a","n","c","e",","," ","N","o","n","e","T","y","p","e"," ","f","o","u","n","d">>

\* " ".join([... for s in snippets]): a None among the items raises
\* TypeError naming the first such item (0-based)
Assemble(snippets) ==
    LET items == [i \in 1..Len(snippets) |-> SnippetText(snippets[i])]
        nones == {i \in 1..Len(items) : items[i].none}
    IN  IF nones # {}
        THEN [raised |-> "TypeError",
              value |-> S_SequenceItem \o <<DigitChars[Min(nones)]>> \o S_ExpectedStr]
        ELSE [raised |-> "none",
              value |-> Join(S_Space, [i \in 1..Len(items) |-> items[i].text])]

(***************************************************************************)
(* The transcript tool, fetch_youtube_transcript (main.py:86-141).         *)
(***************************************************************************)
S_Error == <<"E","R","R","O","R",":"," ">>

S_Disabled == <<"E","R","R","O","R",":"," ","C","a","p","t","i","o","n","s","/","s","u","b","t","i","t","l","e","s"," ","a","r","e"," ","d","i","s","a","b","l","e","d",".">>

S_Unavailable == <<"E","R","R","O","R",":"," ","V","i","d","e","o"," ","u","n","a","v","a","i","l","a","b","l","e"," ","o","r"," ","p","r","i","v","a","t","e",".">>

S_NoTranscript == <<"E","R","R","O","R",":"," ","N","o"," ","t","r","a","n","s","c","r","i","p","t"," ","f","o","u","n","d"," ","i","n"," ","r","e","q","u","e","s","t","e","d"," ","l","a","n","g","u","a","g","e","s",".">>

\* str(e) of a provider exception
S_ProviderFailure == <<"n","e","t","w","o","r","k"," ","u","n","r","e","a","c","h","a","b","l","e">>

\* what the provider may raise: its three named errors, or anything else
ProviderErrors == {"TranscriptsDisabled", "VideoUnavailable", "NoTranscriptFound", "Other"}

\* the classes the three names are bound to: the provider's own, or, when
\* their import failed, Exception each
ErrorClasses(imported) ==
    IF imported
    THEN <<"TranscriptsDisabled", "VideoUnavailable", "NoTranscriptFound">>
    ELSE <<"Exception", "Exception", "Exception">>

\* the except clauses in their order; the last is "except Exception"
ExceptClauses(imported) == ErrorClasses(imported) \o <<"Exception">>

\* isinstance(e, cls) for an exception of kind `kind`
IsInstance(kind, cls) == cls = "Exception" \/ cls = kind

\* the first except clause that takes the exception
ExceptClause(kind, imported) ==
    Min({k \in 1..Len(ExceptClauses(imported)) :
            IsInstance(kind, ExceptClauses(imported)[k])})

\* the except clauses with the texts of the first two exchanged
HandlerMessage_swapped(k, msg) ==
    CASE k = 1 -> S_Unavailable
      [] k = 2 -> S_Disabled
      [] k = 3 -> S_NoTranscript
      [] OTHER -> S_Error \o msg

\* error_msg of the except clause k, for an exception whose str is msg
HandlerMessage(k, msg) ==
    CASE k = 1 -> S_Disabled
      [] k = 2 -> S_Unavailable
      [] k = 3 -> S_NoTranscript
      [] OTHER -> S_Error \o msg

\* the body of the try (main.py:94-124) against a provider that behaves as
\* env says; calls counts the provider operations begun (list,
\* find_transcript, fetch)
TryBody(url, env) ==
    LET id == get_video_id(url)
    IN  IF id.raised # "none"
        THEN [raised |-> id.raised, value |-> id.value, calls |-> 0, selected |-> "none"]
        ELSE IF env.list_raises # "none"
        THEN [raised |-> env.list_raises, value |-> S_ProviderFailure,
              calls |-> 1, selected |-> "none"]
        ELSE LET t == find_transcript(env.listing)
             IN  IF t.raised # "none"
                 THEN [raised |-> t.raised, value |-> S_ProviderFailure,
                       calls |-> 2, selected |-> "none"]
                 ELSE IF env.fetch_raises # "none"
                 THEN [raised |-> env.fetch_raises, value |-> S_ProviderFailure,
                       calls |-> 3, selected |-> t.language_code]
                 ELSE LET a == Assemble(env.snippets)
                      IN  [raised |-> a.raised, value |-> a.value,
                           calls |-> 3, selected |-> t.language_code]

\* fetch_youtube_transcript(youtube_url): the text returned, the exception
\* caught on the way ("none": none), and the provider operations begun
fetch_youtube_transcript(url, imported, env) ==
    LET b == TryBody(url, env)
    IN  [has |-> TRUE,
         arg |-> url,
         value |-> IF b.raised = "none" THEN b.value
                   ELSE HandlerMessage(ExceptClause(b.raised, imported), b.value),
         caught |-> b.raised,
         calls |-> b.calls,
         selected |-> b.selected]

(***************************************************************************)
(* Inputs of the resolver.                                                 *)
(***************************************************************************)
Ids ==
    { <<"d","Q","w","4","w","9","W","g","X","c","Q">>,
      <<"9","P","X","l","u","C","2","F","M","D","0">>,
      <<"x","_","Y","-","z","_","0","-","1","_","2">> }

\* the supported reference shapes: watch link, short link, embed link,
\* shorts link
ShapePrefixes ==
    { <<"h","t","t","p","s",":","/","/","w","w","w",".","y","o","u","t","u","b","e",".","c","o","m","/","w","a","t","c","h","?","v","=">>,
      <<"h","t","t","p","s",":","/","/","m",".","y","o","u","t","u","b","e",".","c","o","m","/","w","a","t","c","h","?","a","p","p","=","m","&","v","=">>,
      <<"h","t","t","p","s",":","/","/","y","o","u","t","u",".","b","e","/">>,
      <<"y","o","u","t","u",".","b","e","/">>,
      <<"h","t","t","p","s",":","/","/","w","w","w",".","y","o","u","t","u","b","e",".","c","o","m","/","e","m","b","e","d","/">>,
      <<"h","t","t","p","s",":","/","/","w","w","w",".","y","o","u","t","u","b","e",".","c","o","m","/","s","h","o","r","t","s","/">> }

Suffixes ==
    { <<>>,
      <<"?","s","i","=","n","5","k","Y","k","u","3","s","a","X","8","C","u","K","w","v">>,
      <<"&","t","=","4","2","s">>,
      <<"&","f","e","a","t","u","r","e","=","y","o","u","t","u",".","b","e">>,
      <<"Z","z">> }

\* references of no supported shape
Shapeless ==
    { <<>>,
      <<"h","t","t","p","s",":","/","/","e","x","a","m","p","l","e",".","c","o","m","/","v","i","d","e","o">>,
      <<"h","t","t","p","s",":","/","/","y","o","u","t","u",".","b","e","/","d","Q","w","4","w","9">>,
      <<"h","t","t","p","s",":","/","/","w","w","w",".","y","o","u","t","u","b","e",".","c","o","m","/">> }

\* a reference with the identifier it was built around (<<>>: none)
ShapedRefs ==
    {[s |-> p \o id \o x, id |-> id] : p \in ShapePrefixes, id \in Ids, x \in Suffixes}

ShapelessRefs == {[s |-> r, id |-> <<>>] : r \in Shapeless}

BadChars == {"/", " ", "\n", ".", "="}

EdgeChars == {"a", "\n", " ", "-"}

Replace(s, k, c) == [s EXCEPT ![k] = c]

\* candidate identifier tokens: identifiers, and identifiers damaged at one
\* position, lengthened at either end, or cut short
Tokens ==
    Ids
    \cup {Replace(id, k, c) : id \in Ids, k \in 1..IdLen, c \in BadChars}
    \cup {<<c>> \o id : id \in Ids, c \in EdgeChars}
    \cup {id \o <<c>> : id \in Ids, c \in EdgeChars}
    \cup {id \o <<c, d>> : id \in Ids, c \in EdgeChars, d \in EdgeChars}
    \cup {SubSeq(id, 1, n) : id \in Ids, n \in 0..(IdLen - 1)}

TokenInputs == {[s |-> t, id |-> <<>>] : t \in Tokens}

\* the script is not running while a function is applied on its own
ProgramOff ==
    /\ pc = "off"
    /\ GEMINI_API_KEY = ""
    /\ errorsImported = TRUE
    /\ gemini_llm = [built |-> FALSE, api_key |-> ""]
    /\ youtube_url = <<>>
    /\ taskIndex = 0
    /\ taskState = <<>>
    /\ taskOutput = <<>>
    /\ taskContext = <<>>
    /\ observation = [has |-> FALSE, text |-> <<>>]
    /\ llmCalls = 0
    /\ failedCall = 0
    /\ toolCalls = 0
    /\ lastTool = [has |-> FALSE]
    /\ providerCalls = 0
    /\ stdout = "none"

InitResolve ==
    /\ ProgramOff
    /\ fn = "none"
    /\ arg \in ShapedRefs \cup ShapelessRefs \cup TokenInputs
    /\ ret = <<>>

\* apply get_video_id to the input
Resolve ==
    /\ fn = "none"
    /\ fn' = "get_video_id"
    /\ ret' = get_video_id(arg.s)
    /\ UNCHANGED <<arg, progVars>>

\* apply validate_video_id to the input
Validate ==
    /\ fn = "none"
    /\ fn' = "validate_video_id"
    /\ ret' = validate_video_id(arg.s)
    /\ UNCHANGED <<arg, progVars>>

NextResolve == Resolve \/ Validate

SpecResolve == InitResolve /\ [][NextResolve]_vars

(***************************************************************************)
(* Transcript selection on its own.                                        *)
(***************************************************************************)
\* the longest transcript list tried
MaxListed == 3

RECURSIVE SeqsUpTo(_, _)
SeqsUpTo(S, n) ==
    IF n = 0 THEN {<<>>}
    ELSE LET shorter == SeqsUpTo(S, n - 1)
         IN  shorter \cup {Append(q, x) : q \in {r \in shorter : Len(r) = n - 1}, x \in S}

InitSelect ==
    /\ ProgramOff
    /\ fn = "none"
    /\ arg \in SeqsUpTo(Transcripts, MaxListed)
    /\ ret = <<>>

\* apply find_transcript to the listed transcripts
Select ==
    /\ fn = "none"
    /\ fn' = "find_transcript"
    /\ ret' = find_transcript(arg)
    /\ UNCHANGED <<arg, progVars>>

NextSelect == Select

SpecSelect == InitSelect /\ [][NextSelect]_vars

(***************************************************************************)
(* Transcript assembly on its own.                                         *)
(***************************************************************************)
\* the most segments tried
MaxSegs == 3

SegTexts ==
    { <<"H","e","l","l","o">>, <<"w","o","r","l","d">>, <<"t","o","d","a","y">>,
      <<"a"," ","b">>, <<>> }

Snippets ==
    {[kind |-> k, text |-> t] : k \in {"object", "dict"}, t \in SegTexts}
    \cup {[kind |-> k, text |-> <<>>] : k \in {"dict_no_text", "other"}}

InitAssemble ==
    /\ ProgramOff
    /\ fn = "none"
    /\ arg \in SeqsUpTo(Snippets, MaxSegs)
    /\ ret = <<>>

\* assemble the text of the fetched snippets
AssembleText ==
    /\ fn = "none"
    /\ fn' = "join"
    /\ ret' = Assemble(arg)
    /\ UNCHANGED <<arg, progVars>>

NextAssemble == AssembleText

SpecAssemble == InitAssemble /\ [][NextAssemble]_vars

(***************************************************************************)
(* The script: configuration, the crew and the run (main.py:38-239).       *)
(***************************************************************************)
Placeholder == "YOUR_GEMINI_KEY_HERE"

\* the values GEMINI_API_KEY is given: none, the placeholder, a key
Keys == {"", Placeholder, "AIzaSyExampleKey"}

\* a safety check that only looks for an empty key
KeyMissing_empty_only(key) == key = ""

\* the safety check: not GEMINI_API_KEY or GEMINI_API_KEY == placeholder
KeyMissing(key) == key = "" \/ key = Placeholder

extractor_agent == [tools |-> {"fetch_youtube_transcript"}]

summarizer_agent == [tools |-> {}]

extract_task == [agent |-> extractor_agent, context |-> <<>>]

summarize_task == [agent |-> summarizer_agent, context |-> <<"extract_task">>]

TaskNames == {"extract_task", "summarize_task"}

TaskDef(t) == IF t = "extract_task" THEN extract_task ELSE summarize_task

\* the crew with its two tasks listed the other way round
video_summarizer_crew_swapped ==
    [tasks |-> <<"summarize_task", "extract_task">>, process |-> "sequential"]

video_summarizer_crew ==
    [tasks |-> <<"extract_task", "summarize_task">>, process |-> "sequential"]

NoText == [has |-> FALSE, text |-> <<>>]

\* the context a task is started with: the output of its context task
ContextOf(t, outputs) ==
    IF Len(TaskDef(t).context) = 0 THEN NoText
    ELSE outputs[TaskDef(t).context[1]]

\* the task the crew is at
Current == video_summarizer_crew.tasks[taskIndex]

Running == pc = "kickoff" /\ taskIndex >= 1 /\ taskState[Current] = "running"

\* the references a run is given
RunReferences ==
    { <<"h","t","t","p","s",":","/","/","y","o","u","t","u",".","b","e","/","9","P","X","l","u","C","2","F","M","D","0","?","s","i","=","n","5","k","Y","k","u","3","s","a","X","8","C","u","K","w","v">>,
      <<"h","t","t","p","s",":","/","/","y","o","u","t","u",".","b","e","/","d","Q","w","4","w","9","W","g","X","c","Q">>,
      <<"h","t","t","p","s",":","/","/","e","x","a","m","p","l","e",".","c","o","m","/","v","i","d","e","o">> }

\* how the provider answers one tool call
SampleListings ==
    { << [language_code |-> "es", is_generated |-> FALSE],
         [language_code |-> "en", is_generated |-> TRUE] >>,
      << [language_code |-> "es", is_generated |-> FALSE] >> }

SampleSnippets ==
    { << [kind |-> "object", text |-> <<"H","e","l","l","o">>],
         [kind |-> "object", text |-> <<"w","o","r","l","d">>],
         [kind |-> "object", text |-> <<"t","o","d","a","y">>] >>,
      << [kind |-> "dict", text |-> <<"H","e","l","l","o">>],
         [kind |-> "dict_no_text", text |-> <<>>] >> }

\* the provider's answers to one tool call; what a failed operation leaves
\* unused is held fixed
ToolEnvs ==
    {env \in [list_raises : ProviderErrors \cup {"none"},
              listing : SampleListings,
              fetch_raises : ProviderErrors \cup {"none"},
              snippets : SampleSnippets] :
        /\ env.list_raises # "none" =>
              /\ env.listing = << [language_code |-> "es", is_generated |-> FALSE] >>
              /\ env.fetch_raises = "none"
        /\ (env.list_raises # "none" \/ env.fetch_raises # "none"
              \/ find_transcript(env.listing).raised # "none") =>
              env.snippets \in {x \in SampleSnippets : Len(x) = 2}}

\* what an LLM call may answer besides repeating what it was shown
LLMTexts ==
    { <<"O","v","e","r","v","i","e","w",":"," ",".",".",".">>,
      <<"I"," ","c","o","u","l","d"," ","n","o","t"," ","g","e","t"," ","t","h","e"," ","t","r","a","n","s","c","r","i","p","t",".">> }

\* the most tool calls the extractor agent makes in a run
MaxToolCalls == 2

Init ==
    /\ pc = "check_key"
    /\ GEMINI_API_KEY \in Keys
    /\ errorsImported \in BOOLEAN
    /\ gemini_llm = [built |-> FALSE, api_key |-> ""]
    /\ youtube_url \in RunReferences
    /\ taskIndex = 0
    /\ taskState = [t \in TaskNames |-> "pending"]
    /\ taskOutput = [t \in TaskNames |-> NoText]
    /\ taskContext = [t \in TaskNames |-> NoText]
    /\ observation = NoText
    /\ llmCalls = 0
    /\ failedCall = 0
    /\ toolCalls = 0
    /\ lastTool = [has |-> FALSE]
    /\ providerCalls = 0
    /\ stdout = "none"
    /\ fn = "none"
    /\ arg = <<>>
    /\ ret = <<>>

runVars ==
    <<taskIndex, taskState, taskOutput, taskContext, observation, llmCalls,
      failedCall, toolCalls, lastTool, providerCalls, stdout>>

\* the safety check of the credential (main.py:47-50): a missing or
\* placeholder key raises ValueError and the script ends
SafetyCheck ==
    /\ pc = "check_key"
    /\ pc' = IF KeyMissing(GEMINI_API_KEY) THEN "config_error" ELSE "configure_llm"
    /\ UNCHANGED <<GEMINI_API_KEY, errorsImported, gemini_llm, youtube_url, runVars, pureVars>>

\* gemini_llm = LLM(model=..., api_key=GEMINI_API_KEY, temperature=0.3)
ConfigureLLM ==
    /\ pc = "configure_llm"
    /\ gemini_llm' = [built |-> TRUE, api_key |-> GEMINI_API_KEY]
    /\ pc' = "assemble"
    /\ UNCHANGED <<GEMINI_API_KEY, errorsImported, youtube_url, runVars, pureVars>>

\* the agents, the tasks and the crew are defined (main.py:161-217)
AssembleCrew ==
    /\ pc = "assemble"
    /\ pc' = "main"
    /\ UNCHANGED <<GEMINI_API_KEY, errorsImported, gemini_llm, youtube_url, runVars, pureVars>>

\* the crew starts its i-th task, with the context of that task
StartTask(i) ==
    LET t == video_summarizer_crew.tasks[i]
    IN  /\ taskIndex' = i
        /\ taskState' = [taskState EXCEPT ![t] = "running"]
        /\ taskContext' = [taskContext EXCEPT ![t] = ContextOf(t, taskOutput)]
        /\ observation' = NoText

\* video_summarizer_crew.kickoff(inputs={'youtube_url': youtube_url})
Kickoff ==
    /\ pc = "main"
    /\ pc' = "kickoff"
    /\ StartTask(1)
    /\ UNCHANGED <<GEMINI_API_KEY, errorsImported, gemini_llm, youtube_url,
                   taskOutput, llmCalls, failedCall, toolCalls, lastTool,
                   providerCalls, stdout, pureVars>>

\* Process.sequential: the next task of the list starts once the task
\* before it is complete
StartNextTask ==
    /\ pc = "kickoff"
    /\ taskIndex >= 1
    /\ taskState[Current] = "complete"
    /\ taskIndex < Len(video_summarizer_crew.tasks)
    /\ StartTask(taskIndex + 1)
    /\ UNCHANGED <<pc, GEMINI_API_KEY, errorsImported, gemini_llm, youtube_url,
                   taskOutput, llmCalls, failedCall, toolCalls, lastTool,
                   providerCalls, stdout, pureVars>>

\* an LLM call of the running task's agent asks for the tool; the tool
\* runs and its result goes back to the agent
AgentUsesTool ==
    /\ Running
    /\ TaskDef(Current).agent.tools # {}
    /\ toolCalls < MaxToolCalls
    /\ \E url \in RunReferences, env \in ToolEnvs :
          /\ lastTool' = fetch_youtube_transcript(url, errorsImported, env)
          /\ observation' = [has |-> TRUE, text |-> lastTool'.value]
          /\ providerCalls' = providerCalls + lastTool'.calls
    /\ llmCalls' = llmCalls + 1
    /\ toolCalls' = toolCalls + 1
    /\ UNCHANGED <<pc, GEMINI_API_KEY, errorsImported, gemini_llm, youtube_url,
                   taskIndex, taskState, taskOutput, taskContext, failedCall,
                   stdout, pureVars>>

\* what an LLM call may give as the final answer of the running task
Answers ==
    LLMTexts
    \cup (IF observation.has THEN {observation.text} ELSE {})
    \cup (IF taskContext[Current].has THEN {taskContext[Current].text} ELSE {})

\* an LLM call of the running task's agent gives the final answer, which
\* is the task's output
AgentAnswers ==
    /\ Running
    /\ \E text \in Answers :
          taskOutput' = [taskOutput EXCEPT ![Current] = [has |-> TRUE, text |-> text]]
    /\ taskState' = [taskState EXCEPT ![Current] = "complete"]
    /\ llmCalls' = llmCalls + 1
    /\ UNCHANGED <<pc, GEMINI_API_KEY, errorsImported, gemini_llm, youtube_url,
                   taskIndex, taskContext, observation, failedCall, toolCalls,
                   lastTool, providerCalls, stdout, pureVars>>

\* an LLM failure that is swallowed inside the run: the task stays running
\* and its agent calls the LLM again
LLMFails_retried ==
    /\ Running
    /\ llmCalls' = llmCalls + 1
    /\ failedCall' = llmCalls + 1
    /\ UNCHANGED <<pc, GEMINI_API_KEY, errorsImported, gemini_llm, youtube_url,
                   taskIndex, taskState, taskOutput, taskContext, observation,
                   toolCalls, lastTool, providerCalls, stdout, pureVars>>

\* an LLM call raises: nothing in the run catches it, kickoff raises, and
\* the except clause of __main__ prints the error (main.py:238-239)
LLMFails ==
    /\ Running
    /\ llmCalls' = llmCalls + 1
    /\ failedCall' = llmCalls + 1
    /\ taskState' = [taskState EXCEPT ![Current] = "aborted"]
    /\ stdout' = "error"
    /\ pc' = "exited"
    /\ UNCHANGED <<GEMINI_API_KEY, errorsImported, gemini_llm, youtube_url,
                   taskIndex, taskOutput, taskContext, observation, toolCalls,
                   lastTool, providerCalls, pureVars>>

\* kickoff returns the last task's output and __main__ prints the banner
\* and the result (main.py:229-236)
PrintSummary ==
    /\ pc = "kickoff"
    /\ taskIndex = Len(video_summarizer_crew.tasks)
    /\ taskState[Current] = "complete"
    /\ stdout' = "summary"
    /\ pc' = "done"
    /\ UNCHANGED <<GEMINI_API_KEY, errorsImported, gemini_llm, youtube_url,
                   taskIndex, taskState, taskOutput, taskContext, observation,
                   llmCalls, failedCall, toolCalls, lastTool, providerCalls,
                   pureVars>>

Next ==
    \/ SafetyCheck
    \/ ConfigureLLM
    \/ AssembleCrew
    \/ Kickoff
    \/ StartNextTask
    \/ AgentUsesTool
    \/ AgentAnswers
    \/ LLMFails
    \/ PrintSummary

Spec == Init /\ [][Next]_vars

(***************************************************************************)
(* Properties.                                                             *)
(***************************************************************************)
\* s contains w as a substring
Contains(s, w) ==
    \E i \in 1..(Len(s) - Len(w) + 1) : SubSeq(s, i, i + Len(w) - 1) = w

W_disabled == <<"d","i","s","a","b","l","e","d">>

\* C1: in every state of a run where the Summarize task is running, complete
\* or aborted, the Extract task is complete, its output is stored, and that
\* output is the context the Summarize task was started with.
C1_SummarizeAfterExtract ==
    taskState["summarize_task"] # "pending" =>
        /\ taskState["extract_task"] = "complete"
        /\ taskOutput["extract_task"].has
        /\ taskContext["summarize_task"] = taskOutput["extract_task"]

C1_Witness ==
    /\ taskState["summarize_task"] = "running"
    /\ taskState["extract_task"] = "complete"
    /\ toolCalls > 0

\* C2 as claimed: for a run reference of no supported shape no run occurs:
\* no task starts, no LLM call and no provider call is made, no task output
\* is produced.
C2_NoRunForShapelessReference ==
    youtube_url \in Shapeless =>
        /\ taskIndex = 0
        /\ llmCalls = 0
        /\ providerCalls = 0
        /\ \A t \in TaskNames : ~taskOutput[t].has

\* C2 as amended: a reference of no supported shape makes get_video_id raise
\* ValueError inside the tool call of the Extract task, after the run has
\* started and an LLM call was made; the tool begins no provider operation,
\* catches the error and returns an ERROR text (the invalid-format message
\* with the reference, or the captions-disabled text when the import of the
\* provider's error classes had failed); the run is not stopped by it.
C2_ShapelessCaughtInTool ==
    (lastTool.has /\ lastTool.arg \in Shapeless) =>
        /\ lastTool.caught = "ValueError"
        /\ lastTool.calls = 0
        /\ lastTool.value =
              IF errorsImported
              THEN S_Error \o S_InvalidFormat \o lastTool.arg
              ELSE S_Disabled
        /\ SubSeq(lastTool.value, 1, Len(S_Error)) = S_Error
        /\ taskState["extract_task"] # "pending"
        /\ llmCalls >= 1
        /\ (pc = "exited" => failedCall # 0)

C2_Witness ==
    /\ lastTool.has
    /\ lastTool.arg \in Shapeless
    /\ youtube_url = lastTool.arg
    /\ providerCalls = 0
    /\ pc = "done"
    /\ stdout = "summary"

\* C3 as claimed: whatever the provider raises while listing, selecting or
\* fetching, the tool returns the text of that kind of failure: the disabled,
\* unavailable and no-transcript texts for the three named errors, and
\* "ERROR: " with the exception's message for any other.
C3_FailureSpecificText ==
    (lastTool.has /\ lastTool.caught \in ProviderErrors) =>
        lastTool.value =
            CASE lastTool.caught = "TranscriptsDisabled" -> S_Disabled
              [] lastTool.caught = "VideoUnavailable"    -> S_Unavailable
              [] lastTool.caught = "NoTranscriptFound"   -> S_NoTranscript
              [] OTHER                                   -> S_Error \o S_ProviderFailure

\* C4 as claimed: once the provider has reported captions disabled, the
\* Extract task's output is the tool's text, it contains "disabled", and it
\* is the Summarize task's context.
C4_DisabledTextForwarded ==
    (lastTool.has /\ lastTool.caught = "TranscriptsDisabled"
        /\ taskState["extract_task"] = "complete") =>
        /\ taskOutput["extract_task"].text = lastTool.value
        /\ Contains(taskOutput["extract_task"].text, W_disabled)
        /\ (taskState["summarize_task"] # "pending" =>
               taskContext["summarize_task"].text = lastTool.value)

\* C4 as amended: when the provider reports captions disabled, the tool
\* returns a text containing "disabled" to the extractor agent and raises
\* nothing, so the run stops only if an LLM call fails; the Extract task's
\* output (the agent's answer, which need not be the tool's text) is
\* forwarded unchanged as the Summarize task's context.
C4_DisabledTextReturned ==
    /\ (lastTool.has /\ lastTool.caught = "TranscriptsDisabled") =>
          /\ Contains(lastTool.value, W_disabled)
          /\ (taskState["extract_task"] = "running" =>
                 observation = [has |-> TRUE, text |-> lastTool.value])
          /\ (pc = "exited" => failedCall # 0)
    /\ taskState["summarize_task"] # "pending" =>
          /\ taskOutput["extract_task"].has
          /\ taskContext["summarize_task"] = taskOutput["extract_task"]

C4_Witness ==
    /\ lastTool.has
    /\ lastTool.caught = "TranscriptsDisabled"
    /\ taskContext["summarize_task"] = [has |-> TRUE, text |-> lastTool.value]
    /\ taskState["summarize_task"] = "complete"
    /\ pc = "done"
    /\ stdout = "summary"

\* C5 as claimed: validate_video_id(x) is true exactly when x has 11
\* characters, each of them in a-z, A-Z, 0-9, hyphen, underscore.
C5_ValidIffExactToken ==
    fn = "validate_video_id" =>
        (ret <=> (Len(arg.s) = 11 /\ \A k \in 1..Len(arg.s) : IdChar(arg.s[k])))

\* C6: for a reference made of a supported shape, an identifier and what
\* follows it, get_video_id raises nothing and returns that identifier.
C6_ResolveReturnsIdentifier ==
    (fn = "get_video_id" /\ arg.id # <<>>) =>
        /\ ret.raised = "none"
        /\ ret.value = arg.id

C6_Witness ==
    /\ fn = "get_video_id"
    /\ arg.s = <<"h","t","t","p","s",":","/","/","y","o","u","t","u",".","b","e","/","d","Q","w","4","w","9","W","g","X","c","Q">>
    /\ ret.value = <<"d","Q","w","4","w","9","W","g","X","c","Q">>

C7_Preference == <<"en-CA", "en-US", "en-GB", "en">>

\* C7: find_transcript selects the transcript whose language code is the
\* first entry of [en-CA, en-US, en-GB, en] present among the listed
\* transcripts, in whatever order they are listed, and raises
\* NoTranscriptFound when none of the four is listed.
C7_FirstPreferredSelected ==
    fn = "find_transcript" =>
        LET listed == {arg[i].language_code : i \in 1..Len(arg)}
            present == {k \in 1..Len(C7_Preference) : C7_Preference[k] \in listed}
        IN  IF present = {}
            THEN ret.raised = "NoTranscriptFound"
            ELSE /\ ret.raised = "none"
                 /\ ret.language_code \in listed
                 /\ \E k \in present :
                       /\ ret.language_code = C7_Preference[k]
                       /\ \A j \in present : k <= j

C7_Witness ==
    /\ fn = "find_transcript"
    /\ arg = << [language_code |-> "es", is_generated |-> FALSE],
                [language_code |-> "en", is_generated |-> FALSE] >>
    /\ ret.raised = "none"
    /\ ret.language_code = "en"

\* where the i-th segment starts in the assembled text
RECURSIVE C8_Offset(_, _)
C8_Offset(segs, i) ==
    IF i = 1 THEN 1 ELSE C8_Offset(segs, i - 1) + Len(segs[i - 1].text) + 1

\* C8: for N >= 1 segments with a text, the assembled text is the texts in
\* their order with one space between consecutive ones: each text stands at
\* its place, a single space follows each but the last, and the length is
\* that of the texts plus N - 1.
C8_AssemblyKeepsOrder ==
    (fn = "join" /\ Len(arg) >= 1
        /\ \A i \in 1..Len(arg) : arg[i].kind \in {"object", "dict"}) =>
        LET n == Len(arg)
            end == C8_Offset(arg, n) + Len(arg[n].text) - 1
        IN  /\ ret.raised = "none"
            /\ Len(ret.value) = end
            /\ \A i \in 1..n :
                  SubSeq(ret.value, C8_Offset(arg, i),
                         C8_Offset(arg, i) + Len(arg[i].text) - 1) = arg[i].text
            /\ \A i \in 1..(n - 1) :
                  ret.value[C8_Offset(arg, i) + Len(arg[i].text)] = " "

C8_Witness ==
    /\ fn = "join"
    /\ arg = << [kind |-> "object", text |-> <<"H","e","l","l","o">>],
                [kind |-> "object", text |-> <<"w","o","r","l","d">>],
                [kind |-> "object", text |-> <<"t","o","d","a","y">>] >>
    /\ ret.value = <<"H","e","l","l","o"," ","w","o","r","l","d"," ","t","o","d","a","y">>

C10_ConfigErrorBeforeRun ==
    /\ GEMINI_API_KEY \in {"", "YOUR_GEMINI_KEY_HERE"} =>
          /\ pc \in {"check_key", "config_error"}
          /\ ~gemini_llm.built
          /\ taskIndex = 0
          /\ llmCalls = 0
    /\ pc = "config_error" =>
          /\ GEMINI_API_KEY \in {"", "YOUR_GEMINI_KEY_HERE"}
          /\ ~gemini_llm.built
          /\ taskIndex = 0
    /\ gemini_llm.built => gemini_llm.api_key \notin {"", "YOUR_GEMINI_KEY_HERE"}

C10_Witness ==
    /\ pc = "config_error"
    /\ GEMINI_API_KEY = "YOUR_GEMINI_KEY_HERE"

====
